---- MODULE Spec2Model ----
(***************************************************************************)
(* The notebook working-with-foreign-functions.ipynb as a state machine.   *)
(* The code cells run top to bottom; every statement that calls into a     *)
(* shared library, binds a name or produces a cell output is one action.   *)
(* Results that the environment decides (what token_bytes returns, where   *)
(* a buffer is placed, what fopen / fread / fclose return) are chosen with *)
(* \E from bounded sets.  Passing a NULL FILE* to fread or fclose is       *)
(* undefined behaviour in C: both outcomes a C library produces (the       *)
(* process dies, or the call returns an error value) are modelled.         *)
(* The two timing cells (benchmarks of randombytes) are not modelled.      *)
(***************************************************************************)
EXTENDS Integers, Sequences, FiniteSets, TLC

(* ------------------------------ bounds --------------------------------- *)
\* token_bytes / randombytes results are drawn from seeds 0..MaxSeed
MaxSeed == 2
\* buffers are placed at addresses 1..MaxAddr
MaxAddr == 2
\* FILE* values returned by a successful fopen are 1..MaxHandle
MaxHandle == 2

(* ------------------------- program constants --------------------------- *)
\* create_string_buffer(32)
N == 32
\* ffi.new("unsigned char[]", 8)
BsLen == 8

VARIABLES
    pc,          \* the statement that runs next, or done / crashed / stopped
    err,         \* the Python exception that stopped the run, "none" otherwise
    libc,        \* the loaded shared library
    disk,        \* the bytes of data.txt on disk
    file, mode,  \* the c_char_p values passed to fopen
    syms,        \* the foreign symbols looked up so far
    argtypes,    \* FuncPtr.argtypes per symbol (<< >>: not assigned)
    restype,     \* FuncPtr.restype per symbol (ctypes default: c_int)
    dataAddr,    \* address of the buffer `data`, 0 while the name is unbound
    data,        \* contents of the buffer `data`
    fp,          \* the name fp: -1 unbound, 0 None (NULL), else the FILE*
    bsAddr,      \* address of the cffi buffer `bs`, 0 while unbound
    bs,          \* contents of the buffer `bs`
    calls,       \* the foreign calls issued so far, in order
    hostCopies,  \* Python bytes objects created from a buffer, in order
    outs,        \* the displayed cell outputs, in order
    tainted      \* offsets of `data` that hold bytes read from the file

vars == <<pc, err, libc, disk, file, mode, syms, argtypes, restype, dataAddr,
          data, fp, bsAddr, bs, calls, hostCopies, outs, tainted>>

(* ------------------------------ helpers -------------------------------- *)
Min(a, b) == IF a < b THEN a ELSE b

Addrs == 1..MaxAddr

Handles == 1..MaxHandle

Funcs == {"fopen", "fread", "fclose", "memset", "randombytes"}

\* a freshly created ctypes / cffi character buffer is zero-filled
Zeros(n) == [i \in 1..n |-> 0]

\* secrets.token_bytes(n) / randombytes: n bytes, one string per seed
TokenBytes(n, seed) == [i \in 1..n |-> (seed * (i + 6)) % 256]

\* bytes.hex(): two hexadecimal digits per byte, high nibble first
Hex(b) == [k \in 1..(2 * Len(b)) |->
             IF k % 2 = 1 THEN b[(k + 1) \div 2] \div 16
                          ELSE b[k \div 2] % 16]

\* hex(int): the hexadecimal digits of a non-negative integer
RECURSIVE HexInt(_)
HexInt(n) == IF n < 16 THEN <<n>> ELSE Append(HexInt(n \div 16), n % 16)

\* fread stores the first `got` bytes of the stream at the start of the buffer
FreadBytes(buf, src, got) ==
    [i \in 1..Len(buf) |-> IF i <= got THEN src[i] ELSE buf[i]]

\* fread returns the number of complete items of `size` bytes it stored
FreadItems(got, size) == got \div size

\* mutant of Memset: the last byte of the span is left alone
MemsetOffByOne(buf, c, n) ==
    [i \in 1..Len(buf) |-> IF i < n THEN c % 256 ELSE buf[i]]

\* memset stores the byte c in the first n bytes of the buffer
Memset(buf, c, n) ==
    [i \in 1..Len(buf) |-> IF i <= n THEN c % 256 ELSE buf[i]]

\* one foreign call: function, string arguments, pointer argument, two
\* integer arguments, stream argument and the value returned
Call(fn, s1, s2, ptr, a, b, stream, ret) ==
    [fn |-> fn, s1 |-> s1, s2 |-> s2, ptr |-> ptr, a |-> a, b |-> b,
     stream |-> stream, ret |-> ret]

(* ------------------------- order of the statements --------------------- *)
Cells == <<"loadlib", "writefile", "strings", "symbols", "bindings", "alloc",
           "fopen", "fread", "fclose", "showload", "addressof",
           "memset_argtypes", "memset", "showclear",
           "sodium_new", "randombytes", "showbs", "done">>

\* mutant order: the file is closed before it is read
CellsCloseFirst == <<"loadlib", "writefile", "strings", "symbols", "bindings",
           "alloc", "fopen", "fclose", "fread", "showload", "addressof",
           "memset_argtypes", "memset", "showclear",
           "sodium_new", "randombytes", "showbs", "done">>

\* mutant order: the buffer is cleared before the file is loaded
CellsClearFirst == <<"loadlib", "writefile", "strings", "symbols", "bindings",
           "alloc", "memset_argtypes", "memset", "showclear",
           "fopen", "fread", "fclose", "showload", "addressof",
           "sodium_new", "randombytes", "showbs", "done">>

After(order, c) ==
    LET i == CHOOSE k \in 1..Len(order) : order[k] = c
    IN  IF i < Len(order) THEN order[i + 1] ELSE "done"

NextCellCloseFirst(c) == After(CellsCloseFirst, c)

NextCellClearFirst(c) == After(CellsClearFirst, c)

\* the statement that follows statement c in the notebook
NextCell(c) == After(Cells, c)

(* ------------------------------- Init ---------------------------------- *)
Init ==
    /\ pc = "loadlib"
    /\ err = "none"
    /\ libc = "none"
    /\ disk = << >>
    /\ file = ""
    /\ mode = ""
    /\ syms = {}
    /\ argtypes = [f \in Funcs |-> << >>]
    /\ restype = [f \in Funcs |-> "c_int"]
    /\ dataAddr = 0
    /\ data = << >>
    /\ fp = -1
    /\ bsAddr = 0
    /\ bs = << >>
    /\ calls = << >>
    /\ hostCopies = << >>
    /\ outs = << >>
    /\ tainted = {}

(* ------------------------------ actions -------------------------------- *)
\* libc = ctypes.windll.msvcrt on Windows, LoadLibrary(find_library("c")) else
LoadLibrary ==
    /\ pc = "loadlib"
    /\ \E sys \in {"Windows", "Linux", "Darwin"} :
         libc' = IF sys = "Windows" THEN "msvcrt" ELSE "libc"
    /\ pc' = NextCell("loadlib")
    /\ UNCHANGED <<err, disk, file, mode, syms, argtypes, restype, dataAddr,
                   data, fp, bsAddr, bs, calls, hostCopies, outs, tainted>>

\* with open("data.txt", "wb") as file: file.write(token_bytes(32))
WriteFile ==
    /\ pc = "writefile"
    /\ \E seed \in 0..MaxSeed : disk' = TokenBytes(32, seed)
    /\ pc' = NextCell("writefile")
    /\ UNCHANGED <<err, libc, file, mode, syms, argtypes, restype, dataAddr,
                   data, fp, bsAddr, bs, calls, hostCopies, outs, tainted>>

\* file = c_char_p("data.txt".encode("ascii")); mode = c_char_p("rb"...)
MakeStrings ==
    /\ pc = "strings"
    /\ file' = "data.txt"
    /\ mode' = "rb"
    /\ pc' = NextCell("strings")
    /\ UNCHANGED <<err, libc, disk, syms, argtypes, restype, dataAddr,
                   data, fp, bsAddr, bs, calls, hostCopies, outs, tainted>>

\* fopen = libc.fopen; fread = libc.fread; fclose = libc.fclose
LookupSymbols ==
    /\ pc = "symbols"
    /\ syms' = syms \cup {"fopen", "fread", "fclose"}
    /\ pc' = NextCell("symbols")
    /\ UNCHANGED <<err, libc, disk, file, mode, argtypes, restype, dataAddr,
                   data, fp, bsAddr, bs, calls, hostCopies, outs, tainted>>

\* the argtypes / restype assignments of fopen, fread and fclose
DeclareBindings ==
    /\ pc = "bindings"
    /\ argtypes' = [argtypes EXCEPT
                      !["fopen"] = <<"c_char_p", "c_char_p">>,
                      !["fread"] = <<"c_void_p", "c_size_t", "c_size_t",
                                     "c_void_p">>,
                      !["fclose"] = <<"c_void_p">>]
    /\ restype' = [restype EXCEPT
                      !["fopen"] = "c_void_p",
                      !["fread"] = "c_size_t",
                      !["fclose"] = "c_int"]
    /\ pc' = NextCell("bindings")
    /\ UNCHANGED <<err, libc, disk, file, mode, syms, dataAddr,
                   data, fp, bsAddr, bs, calls, hostCopies, outs, tainted>>

\* data = ctypes.create_string_buffer(32): 32 zero bytes at a fresh address,
\* or MemoryError when the allocation fails
CreateBuffer ==
    /\ pc = "alloc"
    /\ \/ /\ \E a \in Addrs : dataAddr' = a
          /\ data' = Zeros(N)
          /\ pc' = NextCell("alloc")
          /\ err' = err
       \/ /\ pc' = "stopped"
          /\ err' = "MemoryError"
          /\ UNCHANGED <<dataAddr, data>>
    /\ UNCHANGED <<libc, disk, file, mode, syms, argtypes, restype,
                   fp, bsAddr, bs, calls, hostCopies, outs, tainted>>

\* fp = fopen(file, mode): NULL (None) on failure, a FILE* otherwise
Fopen ==
    /\ pc = "fopen"
    /\ \E h \in {0} \cup Handles :
         /\ fp' = h
         /\ calls' = Append(calls, Call("fopen", file, mode, 0, 0, 0, 0, h))
    /\ pc' = NextCell("fopen")
    /\ UNCHANGED <<err, libc, disk, file, mode, syms, argtypes, restype,
                   dataAddr, data, bsAddr, bs, hostCopies, outs, tainted>>

\* fread(data, 32, 1, fp): the value returned is discarded.  With a valid
\* stream any number of bytes up to 32 * 1 may arrive (end of file or read
\* error cut the transfer short).  With a NULL stream the behaviour is
\* undefined: the process dies, or the call returns 0 and stores nothing.
Fread ==
    /\ pc = "fread"
    /\ IF fp = 0
       THEN \/ /\ calls' = Append(calls,
                      Call("fread", "", "", dataAddr, 32, 1, fp, 0))
               /\ pc' = "crashed"
               /\ UNCHANGED <<data, tainted>>
            \/ /\ calls' = Append(calls,
                      Call("fread", "", "", dataAddr, 32, 1, fp, 0))
               /\ pc' = NextCell("fread")
               /\ UNCHANGED <<data, tainted>>
       ELSE \E got \in 0..Min(32 * 1, Len(disk)) :
               /\ data' = FreadBytes(data, disk, got)
               /\ tainted' = tainted \cup (1..got)
               /\ calls' = Append(calls,
                      Call("fread", "", "", dataAddr, 32, 1, fp,
                           FreadItems(got, 32)))
               /\ pc' = NextCell("fread")
    /\ UNCHANGED <<err, libc, disk, file, mode, syms, argtypes, restype,
                   dataAddr, fp, bsAddr, bs, hostCopies, outs>>

\* fclose(fp): 0 on success, EOF (-1) on failure; the name fp keeps the stale
\* value.  fclose(NULL) is undefined: the process dies or EOF is returned.
Fclose ==
    /\ pc = "fclose"
    /\ IF fp = 0
       THEN \/ /\ calls' = Append(calls,
                      Call("fclose", "", "", 0, 0, 0, fp, -1))
               /\ pc' = "crashed"
            \/ /\ calls' = Append(calls,
                      Call("fclose", "", "", 0, 0, 0, fp, -1))
               /\ pc' = NextCell("fclose")
       ELSE /\ \E r \in {0, -1} :
                 calls' = Append(calls, Call("fclose", "", "", 0, 0, 0, fp, r))
            /\ pc' = NextCell("fclose")
    /\ UNCHANGED <<err, libc, disk, file, mode, syms, argtypes, restype,
                   dataAddr, data, fp, bsAddr, bs, hostCopies, outs, tainted>>

\* bytes(data).hex() after the load: bytes(data) is a new Python bytes object
\* holding a copy of the 32 bytes; its hex string is the cell's output
ShowLoaded ==
    /\ pc = "showload"
    /\ hostCopies' = Append(hostCopies, [src |-> dataAddr, bytes |-> data])
    /\ outs' = Append(outs, [cell |-> "showload", val |-> Hex(data)])
    /\ pc' = NextCell("showload")
    /\ UNCHANGED <<err, libc, disk, file, mode, syms, argtypes, restype,
                   dataAddr, data, fp, bsAddr, bs, calls, tainted>>

\* hex(addressof(data))
Addressof ==
    /\ pc = "addressof"
    /\ outs' = Append(outs, [cell |-> "addressof", val |-> HexInt(dataAddr)])
    /\ pc' = NextCell("addressof")
    /\ UNCHANGED <<err, libc, disk, file, mode, syms, argtypes, restype,
                   dataAddr, data, fp, bsAddr, bs, calls, hostCopies, tainted>>

\* libc.memset.argtypes = [c_void_p, c_int, c_size_t]; restype stays c_int
MemsetArgtypes ==
    /\ pc = "memset_argtypes"
    /\ syms' = syms \cup {"memset"}
    /\ argtypes' = [argtypes EXCEPT
                      !["memset"] = <<"c_void_p", "c_int", "c_size_t">>]
    /\ pc' = NextCell("memset_argtypes")
    /\ UNCHANGED <<err, libc, disk, file, mode, restype, dataAddr, data, fp,
                   bsAddr, bs, calls, hostCopies, outs, tainted>>

\* mutant of MemsetCall: only 31 bytes are cleared
MemsetCallShortLen ==
    /\ pc = "memset"
    /\ data' = Memset(data, 0, 31)
    /\ tainted' = tainted \ (1..31)
    /\ calls' = Append(calls,
           Call("memset", "", "", dataAddr, 0, 31, 0, dataAddr))
    /\ pc' = NextCell("memset")
    /\ UNCHANGED <<err, libc, disk, file, mode, syms, argtypes, restype,
                   dataAddr, fp, bsAddr, bs, hostCopies, outs>>

\* mutant of MemsetCall: the name data is bound to a new zero-filled buffer
\* instead of clearing the old one in place
MemsetCallRebinds ==
    /\ pc = "memset"
    /\ \E a \in Addrs \ {dataAddr} : dataAddr' = a
    /\ data' = Zeros(N)
    /\ tainted' = {}
    /\ calls' = Append(calls,
           Call("memset", "", "", dataAddr', 0, 32, 0, dataAddr'))
    /\ pc' = NextCell("memset")
    /\ UNCHANGED <<err, libc, disk, file, mode, syms, argtypes, restype,
                   fp, bsAddr, bs, hostCopies, outs>>

\* libc.memset(data, 0, 32); memset returns its first argument
MemsetCall ==
    /\ pc = "memset"
    /\ data' = Memset(data, 0, 32)
    /\ tainted' = tainted \ (1..32)
    /\ calls' = Append(calls,
           Call("memset", "", "", dataAddr, 0, 32, 0, dataAddr))
    /\ pc' = NextCell("memset")
    /\ UNCHANGED <<err, libc, disk, file, mode, syms, argtypes, restype,
                   dataAddr, fp, bsAddr, bs, hostCopies, outs>>

\* bytes(data).hex() after the memset
ShowCleared ==
    /\ pc = "showclear"
    /\ hostCopies' = Append(hostCopies, [src |-> dataAddr, bytes |-> data])
    /\ outs' = Append(outs, [cell |-> "showclear", val |-> Hex(data)])
    /\ pc' = NextCell("showclear")
    /\ UNCHANGED <<err, libc, disk, file, mode, syms, argtypes, restype,
                   dataAddr, data, fp, bsAddr, bs, calls, tainted>>

\* from nacl import _sodium ... bs = ffi.new("unsigned char[]", 8): a second,
\* zero-filled buffer of 8 bytes, or ImportError when PyNaCl / cffi is absent
SodiumNew ==
    /\ pc = "sodium_new"
    /\ \/ /\ \E a \in Addrs \ {dataAddr} : bsAddr' = a
          /\ bs' = Zeros(BsLen)
          /\ syms' = syms \cup {"randombytes"}
          /\ pc' = NextCell("sodium_new")
          /\ err' = err
       \/ /\ pc' = "stopped"
          /\ err' = "ImportError"
          /\ UNCHANGED <<bsAddr, bs, syms>>
    /\ UNCHANGED <<libc, disk, file, mode, argtypes, restype, dataAddr, data,
                   fp, calls, hostCopies, outs, tainted>>

\* lib.randombytes(bs, 8)
RandomBytes ==
    /\ pc = "randombytes"
    /\ \E seed \in 0..MaxSeed : bs' = TokenBytes(8, seed)
    /\ calls' = Append(calls, Call("randombytes", "", "", bsAddr, 0, 8, 0, 0))
    /\ pc' = NextCell("randombytes")
    /\ UNCHANGED <<err, libc, disk, file, mode, syms, argtypes, restype,
                   dataAddr, data, fp, bsAddr, hostCopies, outs, tainted>>

\* bytes(bs).hex()
ShowBs ==
    /\ pc = "showbs"
    /\ hostCopies' = Append(hostCopies, [src |-> bsAddr, bytes |-> bs])
    /\ outs' = Append(outs, [cell |-> "showbs", val |-> Hex(bs)])
    /\ pc' = NextCell("showbs")
    /\ UNCHANGED <<err, libc, disk, file, mode, syms, argtypes, restype,
                   dataAddr, data, fp, bsAddr, bs, calls, tainted>>

Next ==
    \/ LoadLibrary
    \/ WriteFile
    \/ MakeStrings
    \/ LookupSymbols
    \/ DeclareBindings
    \/ CreateBuffer
    \/ Fopen
    \/ Fread
    \/ Fclose
    \/ ShowLoaded
    \/ Addressof
    \/ MemsetArgtypes
    \/ MemsetCall
    \/ ShowCleared
    \/ SodiumNew
    \/ RandomBytes
    \/ ShowBs

Spec == Init /\ [][Next]_vars

(* ----------------------- notions used by the properties ----------------- *)
\* the calls on the file, in the order they were issued
FileCalls == SelectSeq(calls, LAMBDA c : c.fn \in {"fopen", "fread", "fclose"})

\* the foreign calls that wrote into the buffer `data`
RegionWrites ==
    SelectSeq(calls, LAMBDA c : c.fn \in {"fread", "memset"} /\ c.ptr = dataAddr)

\* the load statements (fopen, fread, fclose) have all returned
LoadCompleted ==
    \/ pc \in {"showload", "addressof", "memset_argtypes", "memset",
               "showclear", "sodium_new", "randombytes", "showbs", "done"}
    \/ pc = "stopped" /\ err = "ImportError"

\* the memset statement has returned
ClearCompleted ==
    \/ pc \in {"showclear", "sodium_new", "randombytes", "showbs", "done"}
    \/ pc = "stopped" /\ err = "ImportError"

\* the run is over: last statement done, process dead, or exception raised
Ended == pc \in {"done", "crashed", "stopped"}

\* the lifecycle state of the region, read off the program's state: unbound,
\* bound and never written by a foreign call, last written by fread, last
\* written by memset.  Nothing in the notebook frees the region.
Lifecycle ==
    IF data = << >> THEN "Uninitialized"
    ELSE IF RegionWrites = << >> THEN "Allocated"
    ELSE IF RegionWrites[Len(RegionWrites)].fn = "memset" THEN "Cleared"
    ELSE "Loaded"

Rank(st) ==
    CASE st = "Uninitialized" -> 0
      [] st = "Allocated" -> 1
      [] st = "Loaded" -> 2
      [] st = "Cleared" -> 3
      [] OTHER -> 4

\* the shape of the file calls when fread is given (size, count)
LoadShape(size, count) ==
    LET f == FileCalls IN
    /\ Len(f) <= 3
    /\ Len(f) >= 1 =>
          f[1].fn = "fopen" /\ f[1].s1 = "data.txt" /\ f[1].s2 = "rb"
    /\ Len(f) >= 2 =>
          /\ f[2].fn = "fread" /\ f[2].ptr = dataAddr
          /\ f[2].a = size /\ f[2].b = count
          /\ f[2].stream = f[1].ret
    /\ Len(f) >= 3 => f[3].fn = "fclose" /\ f[3].stream = f[1].ret
    /\ LoadCompleted => Len(f) = 3
    /\ \A i, j \in 1..Len(f) :
          (i < j /\ f[i].fn = "fclose") => f[j].fn = "fopen"

(* ------------------------------ properties ----------------------------- *)
\* C1 (as stated): every load issues exactly open(path, mode), then
\* read(buffer, element_size = 1, count = N, handle), then close(handle), the
\* handle being the one open returned and unused after the close.
C1_LoadCallsAsStated == LoadShape(1, N)

\* C1 (amended): the file calls issued are always an initial part of
\* fopen("data.txt", "rb"), fread(data, element_size = 32, count = 1, fp),
\* fclose(fp), all three once the load statements have returned; fread and
\* fclose receive the value fopen returned and no file call follows the fclose.
C1_LoadCallsInOrder == LoadShape(32, 1)

C1_Witness ==
    /\ pc = "done"
    /\ Len(FileCalls) = 3
    /\ FileCalls[1].ret # 0
    /\ FileCalls[2].ret = 1

\* C2: no operation copies any part of the contents of the buffer `data` into
\* another host-managed container.
C2_NoHostCopy ==
    \A i \in 1..Len(hostCopies) : hostCopies[i].src # dataAddr

C5_ShortReadReported ==
    (\E i \in 1..Len(calls) :
        calls[i].fn = "fread" /\ calls[i].stream # 0 /\ calls[i].ret < calls[i].b)
    => (pc = "stopped" /\ err = "ShortReadError")

\* C6: when fopen returns NULL, neither fread nor fclose is called with that
\* handle.
C6_NullHandleNotUsed ==
    \A i \in 1..Len(calls) :
        calls[i].fn \in {"fread", "fclose"} => calls[i].stream # 0

\* C7: once the buffer exists its address is non-zero and never changes: the
\* address shown by addressof and the address every foreign call receives are
\* that one value, and the addressof statement changes neither the buffer nor
\* the lifecycle state.
C7_AddressStable ==
    /\ [](data # << >> =>
            /\ dataAddr # 0
            /\ \A i \in 1..Len(outs) :
                  outs[i].cell = "addressof" => outs[i].val = HexInt(dataAddr)
            /\ \A i \in 1..Len(calls) :
                  calls[i].fn \in {"fread", "memset"} => calls[i].ptr = dataAddr)
    /\ [][data # << >> => dataAddr' = dataAddr]_vars
    /\ [][pc = "addressof" =>
            data' = data /\ calls' = calls /\ Lifecycle' = Lifecycle]_vars

C7_Witness ==
    /\ pc = "done"
    /\ \E i \in 1..Len(outs) : outs[i].cell = "addressof"
    /\ \E i \in 1..Len(calls) : calls[i].fn = "fread" /\ calls[i].ret = 1
    /\ \E i \in 1..Len(calls) : calls[i].fn = "memset"

\* C8: the lifecycle state of the region never moves to an earlier state.
C8_LifecycleForward == [][Rank(Lifecycle') >= Rank(Lifecycle)]_vars

C8_Witness ==
    /\ pc = "done"
    /\ Lifecycle = "Cleared"
    /\ Len(RegionWrites) = 2

\* C9: after memset(data, 0, 32) every one of the N bytes of the region is
\* zero, whatever was loaded, and the region is Cleared.
C9_ZeroFillClears ==
    /\ ClearCompleted => Lifecycle = "Cleared"
    /\ Lifecycle = "Cleared" => data = Zeros(N)

C9_Witness ==
    /\ pc = "showclear"
    /\ Len(hostCopies) = 1
    /\ hostCopies[1].bytes[N] # 0
    /\ data = Zeros(N)

\* C10: the region that held the loaded data is overwritten with random
\* bytes over all N bytes.
C10_RandomOverwriteOnData ==
    pc = "done" =>
        \E i \in 1..Len(calls) :
            /\ calls[i].fn = "randombytes"
            /\ calls[i].ptr = dataAddr
            /\ calls[i].b = N

====
